---------------------------- MODULE Spec2Model ----------------------------
(***************************************************************************)
(* RAGRetriever (src/backend/rag.py): safe_search, advanced_mmr_retrieval  *)
(* and smart_search over a loaded FAISS index and its metadata list;       *)
(* search_function (src/backend/agent_tools.py), which formats a decision  *)
(* for the agent; run_safety_check (src/backend/safety.py).                *)
(*                                                                         *)
(* Distances are in hundredths (0.55 is 55).  Dot products are in units of *)
(* 1/200, so that for L2-normalised vectors the dot product with the query *)
(* is 200 - d for a (squared L2) distance d.  lambda_mult is in tenths.    *)
(***************************************************************************)
EXTENDS Integers, Sequences, FiniteSets

VARIABLES
    index_ntotal,       \* self.index.ntotal
    metadata_len,       \* len(self.metadata)
    reconstructable,    \* whether self.index.reconstruct works on this index type
    topic,              \* the stored vectors: topic[i+1] is the direction of vector i
    pc,                 \* position of the call in progress
    entry,              \* the method the caller invoked
    query,              \* the encoded query: query[i+1] is its distance to vector i
    k,                  \* the k of safe_search / smart_search
    safe_results,       \* the list safe_search returned
    mmr_k,              \* advanced_mmr_retrieval's k
    lambda_mult,        \* advanced_mmr_retrieval's lambda_mult
    candidate_indices,  \* indices[0] of the MMR fetch
    selected_indices,   \* the identifiers picked so far, in pick order
    mmr_results,        \* the list advanced_mmr_retrieval returned
    ret,                \* the dict smart_search returned
    error,              \* the exception that ended the call, "none" without one
    output,             \* what search_function has put together for the agent
    prev,               \* the previous smart_search call and what it returned
    s_pc,               \* position of run_safety_check in its layers
    message,            \* the user message run_safety_check is looking at
    hf_calls,           \* the classifier calls run_safety_check has made
    safety_ret,         \* the dict run_safety_check returned
    log,                \* the events log_event has appended, oldest first
    conversation_history, \* ConversationAgent.conversation_history
    turn,               \* the chat_agent call in progress
    daily_logs,         \* the rows of the daily_logs table
    saving,             \* saving[s]: the save_daily_log call of session s
    retriever_cache,    \* agent_tools._retriever_cache
    constructions,      \* how many times RAGRetriever() has been run
    getting             \* getting[t]: the get_retriever call of thread t

vars == <<index_ntotal, metadata_len, reconstructable, topic, pc, entry, query,
          k, safe_results, mmr_k, lambda_mult, candidate_indices,
          selected_indices, mmr_results, ret, error, output, prev,
          s_pc, message, hf_calls, safety_ret, log, conversation_history,
          turn, daily_logs, saving, retriever_cache, constructions, getting>>

retriever == <<index_ntotal, metadata_len, reconstructable, topic>>

safety == <<s_pc, message, hf_calls, safety_ret, log>>

agent == <<conversation_history, turn>>

database == <<daily_logs, saving>>

loader == <<retriever_cache, constructions, getting>>

apart == <<agent, database, loader>>

-----------------------------------------------------------------------------
(* Bounds of the model *)

MaxN == 3
MaxMeta == 3
MaxK == 4
MaxDist == 200
MaxPool == 5
MaxHistory == 6
MaxLog == 2

(* Thresholds of the code, in hundredths *)

LowFloor == 50
HighCeil == 80
MediumCeil == 120
OffTopicFloor == 55
RouterLambda == 5
LambdaScale == 10

(* Dot products between stored vectors, in units of 1/200 *)

UnitDot == 200
SameTopicDot == 180
CrossTopicDot == 40

None == 0 - 1
Infinity == MaxDist + 1
MissingLabel == 0 - 1

Min(a, b) == IF a <= b THEN a ELSE b

-----------------------------------------------------------------------------
(* Inputs *)

\* One distance per band the router tells apart: 0.52 (High, below the
\* off-topic floor), 0.65 (High), 1.0 (Medium), MaxDist (Low).
DistValues ==
    { (LowFloor + OffTopicFloor) \div 2, (LowFloor + HighCeil) \div 2,
      (HighCeil + MediumCeil) \div 2, MaxDist }

MMRDistValues == { (LowFloor + HighCeil) \div 2, (HighCeil + MediumCeil) \div 2 }

Lambdas == { 0, RouterLambda, LambdaScale }

Queries(D) == [1..index_ntotal -> D]

-----------------------------------------------------------------------------
(* faiss index.search(x, kk): the kk nearest stored vectors, nearest first, *)
(* ties by identifier; slots the index cannot fill hold label -1 and the   *)
(* largest float.                                                          *)

Nearer(q, i, j) == q[i + 1] < q[j + 1] \/ (q[i + 1] = q[j + 1] /\ i < j)

Nearest(q, S) == CHOOSE i \in S : \A j \in S \ {i} : Nearer(q, i, j)

RECURSIVE Ranked(_, _)
Ranked(q, S) ==
    IF S = {} THEN <<>>
    ELSE LET i == Nearest(q, S)
         IN  <<[idx |-> i, dist |-> q[i + 1]]>> \o Ranked(q, S \ {i})

Search(q, kk) ==
    LET all == Ranked(q, 0..(Len(q) - 1))
        n == Min(kk, Len(all))
    IN  SubSeq(all, 1, n) \o [i \in 1..(kk - n) |-> [idx |-> MissingLabel, dist |-> Infinity]]

-----------------------------------------------------------------------------
(* safe_search *)

\* Mutant: the High band closed at the wrong end (dist < 0.8).
ClassifierStrict(dist) ==
    IF dist < LowFloor THEN "Low Confidence"
    ELSE IF dist < HighCeil THEN "Highly Confident"
    ELSE IF dist <= MediumCeil THEN "Moderately Confident"
    ELSE "Low Confidence"

Classifier(dist) ==
    IF dist < LowFloor THEN "Low Confidence"
    ELSE IF dist <= HighCeil THEN "Highly Confident"
    ELSE IF dist <= MediumCeil THEN "Moderately Confident"
    ELSE "Low Confidence"

\* self.metadata[idx] on a Python list: a negative idx counts from the end.
MetaIndex(idx) == IF idx < 0 THEN metadata_len + idx ELSE idx

Skipped(idx) == idx >= metadata_len

MetadataRaises(idx) == MetaIndex(idx) < 0 \/ MetaIndex(idx) >= metadata_len

SafeResult(hit) ==
    [idx |-> hit.idx, doc |-> MetaIndex(hit.idx), score |-> hit.dist,
     confidence |-> Classifier(hit.dist)]

\* Mutant: each result is put in front of the list instead of appended.
RECURSIVE SafeResultsReversed(_)
SafeResultsReversed(hits) ==
    IF hits = <<>> THEN <<>>
    ELSE IF Skipped(Head(hits).idx) THEN SafeResultsReversed(Tail(hits))
    ELSE SafeResultsReversed(Tail(hits)) \o <<SafeResult(Head(hits))>>

RECURSIVE SafeResults(_)
SafeResults(hits) ==
    IF hits = <<>> THEN <<>>
    ELSE IF Skipped(Head(hits).idx) THEN SafeResults(Tail(hits))
    ELSE <<SafeResult(Head(hits))>> \o SafeResults(Tail(hits))

SafeSearchRaises(hits) ==
    \E i \in 1..Len(hits) : ~Skipped(hits[i].idx) /\ MetadataRaises(hits[i].idx)

-----------------------------------------------------------------------------
NoDecision ==
    [method |-> "none", confidence |-> "none", recommendation |-> "none",
     results |-> <<>>]

\* search_function has not been called.
NoOutput == [status |-> "none", warning |-> FALSE, documents |-> <<>>]

\* No smart_search call has completed yet.
NoCall ==
    [called |-> FALSE, query |-> <<>>, k |-> 0, raised |-> FALSE,
     ret |-> NoDecision]

\* A classifier call that did not answer (the except branch of hf_detect_*).
Failed == [ok |-> FALSE, normal |-> TRUE, score |-> 0]

NoMessage ==
    [crisis_keyword |-> FALSE, crisis_hf |-> Failed,
     dangerous_keyword |-> FALSE, dangerous_hf |-> Failed]

NoResult == [safe |-> "none", response |-> "none", flag |-> "none"]

\* No chat_agent call is in progress.
NoTurn ==
    [pc |-> "Idle", query |-> [crisis_keyword |-> FALSE, dangerous_keyword |-> FALSE],
     memory |-> 0, calls |-> <<>>, reply |-> "none"]

\* The browser sessions of the Streamlit process, and its script threads.
Sessions == {1, 2}

Threads == {1, 2}

\* Session s is not inside save_daily_log.
NoSave == [pc |-> "Idle", key |-> 0, fields |-> 0, existing |-> FALSE,
           result |-> "none"]

\* Thread t is not inside get_retriever.
NoGet == [pc |-> "Idle", instance |-> None, result |-> None]

\* The stored vectors, up to what the code can observe of them: only whether
\* two of them point the same way matters (topic 0 is vector 0's), and an
\* index that cannot reconstruct never shows them.
Topics(n, rec) ==
    { t \in [1..n -> {0, 1}] :
        /\ n > 0 => t[1] = 0
        /\ ~rec => \A i \in 1..n : t[i] = 0 }

\* No call has been made yet.
Fresh ==
    /\ pc = "Start"
    /\ entry = "none"
    /\ query = <<>>
    /\ k = 0
    /\ safe_results = <<>>
    /\ mmr_k = 0
    /\ lambda_mult = 0
    /\ candidate_indices = <<>>
    /\ selected_indices = <<>>
    /\ mmr_results = <<>>
    /\ ret = NoDecision
    /\ error = "none"
    /\ output = NoOutput
    /\ prev = NoCall
    /\ s_pc = "Idle"
    /\ message = NoMessage
    /\ hf_calls = <<>>
    /\ safety_ret = NoResult
    /\ log = <<>>
    /\ conversation_history = <<>>
    /\ turn = NoTurn
    /\ daily_logs = {}
    /\ saving = [s \in Sessions |-> NoSave]
    /\ retriever_cache = None
    /\ constructions = 0
    /\ getting = [t \in Threads |-> NoGet]

Init ==
    /\ index_ntotal \in 0..MaxN
    /\ metadata_len \in 0..MaxMeta
    /\ reconstructable \in BOOLEAN
    /\ topic \in Topics(index_ntotal, reconstructable)
    /\ Fresh

\* safe_search(query, kk) called directly.
SafeSearchCall(q, kk) ==
    /\ pc = "Start"
    /\ entry' = "safe_search"
    /\ query' = q
    /\ k' = kk
    /\ LET hits == Search(q, kk)
       IN  IF SafeSearchRaises(hits)
           THEN pc' = "Raised" /\ safe_results' = <<>> /\ error' = "IndexError"
           ELSE pc' = "Returned" /\ safe_results' = SafeResults(hits) /\ error' = "none"
    /\ UNCHANGED <<retriever, safety, apart, prev, output,
                   mmr_k, lambda_mult, candidate_indices,
                   selected_indices, mmr_results, ret>>

-----------------------------------------------------------------------------
(* advanced_mmr_retrieval *)

Ids(hits) == [i \in 1..Len(hits) |-> hits[i].idx]

Members(s) == { s[i] : i \in 1..Len(s) }

\* np.dot of two stored (reconstructed) vectors
Dot(i, j) ==
    IF i = j THEN UnitDot
    ELSE IF topic[i + 1] = topic[j + 1] THEN SameTopicDot
    ELSE CrossTopicDot

\* np.dot(query_embedding, candidate_embeddings[i])
Relevance(q, i) == UnitDot - q[i + 1]

Max(S) == CHOOSE x \in S : \A y \in S : y <= x

\* Mutant: the similarity to what is already selected is left out.
DiversityNone(i, selected) == 0

Diversity(i, selected) ==
    IF selected = <<>> THEN 0 ELSE Max({ Dot(i, j) : j \in Members(selected) })

NegInf == 0 - (LambdaScale * (UnitDot + MaxDist) + 1)

\* Mutant: selected candidates are not masked out of the argmax.
MaskedNever(cand_idx, selected) == FALSE

Masked(cand_idx, selected) == cand_idx \in Members(selected)

MMRScore(q, lam, cand_idx, selected) ==
    IF Masked(cand_idx, selected) THEN NegInf
    ELSE lam * Relevance(q, cand_idx) - (LambdaScale - lam) * Diversity(cand_idx, selected)

\* Mutant: ties go to the last position holding the maximum.
ArgMaxLast(scores) ==
    CHOOSE p \in 1..Len(scores) :
        /\ \A r \in 1..Len(scores) : scores[r] <= scores[p]
        /\ \A r \in (p + 1)..Len(scores) : scores[r] < scores[p]

\* Mutant: ties are broken one way on a first call and the other way on a
\* later one.
ArgMaxUnstable(scores) ==
    CHOOSE p \in 1..Len(scores) :
        /\ \A r \in 1..Len(scores) : scores[r] <= scores[p]
        /\ IF prev.called
           THEN \A r \in (p + 1)..Len(scores) : scores[r] < scores[p]
           ELSE \A r \in 1..(p - 1) : scores[r] < scores[p]

\* np.argmax: the first position holding the maximum
ArgMax(scores) ==
    CHOOSE p \in 1..Len(scores) :
        /\ \A r \in 1..Len(scores) : scores[r] <= scores[p]
        /\ \A r \in 1..(p - 1) : scores[r] < scores[p]

\* Mutant: the first pick is taken from the end of the candidate list.
BestIdxFromEnd(q, lam, cands, selected) ==
    IF selected = <<>> THEN Len(cands)
    ELSE ArgMax([p \in 1..Len(cands) |-> MMRScore(q, lam, cands[p], selected)])

BestIdx(q, lam, cands, selected) ==
    IF selected = <<>> THEN 1
    ELSE ArgMax([p \in 1..Len(cands) |-> MMRScore(q, lam, cands[p], selected)])

LoopCount(kk, cands) == Min(kk, Len(cands))

MMRResult(idx) == [idx |-> idx, doc |-> MetaIndex(idx)]

RECURSIVE BuildResults(_)
BuildResults(ids) ==
    IF ids = <<>> THEN <<>>
    ELSE IF Head(ids) < metadata_len
         THEN <<MMRResult(Head(ids))>> \o BuildResults(Tail(ids))
         ELSE BuildResults(Tail(ids))

FetchK(kk) == Min(kk * 2, index_ntotal)

\* Mutant: the fallback returns every fetched candidate.
FallbackUncut(cands, kk) == BuildResults(cands)

\* The except branch: the first kk candidates, in the order of the search.
Fallback(cands, kk) == BuildResults(SubSeq(cands, 1, Min(kk, Len(cands))))

\* The body of advanced_mmr_retrieval up to the selection loop.  faiss
\* refuses a search for 0 neighbours in the releases that assert k > 0 and
\* returns no neighbour in the others.
MMRBegin(q, kk, lam) ==
    /\ mmr_k' = kk
    /\ lambda_mult' = lam
    /\ selected_indices' = <<>>
    /\ IF FetchK(kk) = 0
       THEN /\ candidate_indices' = <<>>
            /\ mmr_results' = <<>>
            /\ pc' \in {"Raised", "MMRDone"}
            /\ error' = IF pc' = "Raised" THEN "AssertionError" ELSE "none"
       ELSE LET cands == Ids(Search(q, FetchK(kk)))
            IN  /\ candidate_indices' = cands
                /\ error' = "none"
                /\ IF reconstructable
                   THEN pc' = "MMRLoop" /\ mmr_results' = <<>>
                   ELSE /\ pc' = "MMRDone"
                        /\ mmr_results' = Fallback(cands, kk)

\* advanced_mmr_retrieval(query, kk, lam) called directly.
MMRCall(q, kk, lam) ==
    /\ pc = "Start"
    /\ entry' = "advanced_mmr_retrieval"
    /\ query' = q
    /\ MMRBegin(q, kk, lam)
    /\ UNCHANGED <<retriever, safety, apart,
                   prev, output, k, safe_results, ret>>

\* One iteration of the selection loop.
MMRPick ==
    /\ pc = "MMRLoop"
    /\ Len(selected_indices) < LoopCount(mmr_k, candidate_indices)
    /\ selected_indices' =
         Append(selected_indices,
                candidate_indices[BestIdx(query, lambda_mult, candidate_indices,
                                          selected_indices)])
    /\ UNCHANGED <<retriever, safety, apart, prev, output, error,
                   pc, entry, query, k, safe_results, mmr_k,
                   lambda_mult, candidate_indices, mmr_results, ret>>

\* The loop is over: build the results.
MMRBuild ==
    /\ pc = "MMRLoop"
    /\ Len(selected_indices) = LoopCount(mmr_k, candidate_indices)
    /\ mmr_results' = BuildResults(selected_indices)
    /\ pc' = "MMRDone"
    /\ UNCHANGED <<retriever, safety, apart, prev, output, error,
                   entry, query, k, safe_results, mmr_k, lambda_mult,
                   candidate_indices, selected_indices, ret>>

-----------------------------------------------------------------------------
(* smart_search *)

\* smart_search up to the return of its safe_search call.
SmartSearchBegin(q, kk) ==
    /\ pc = "Start"
    /\ entry' = "smart_search"
    /\ query' = q
    /\ k' = kk
    /\ LET hits == Search(q, kk)
       IN  IF SafeSearchRaises(hits)
           THEN pc' = "Raised" /\ safe_results' = <<>> /\ error' = "IndexError"
           ELSE pc' = "SafeSearch" /\ safe_results' = SafeResults(hits) /\ error' = "none"
    /\ UNCHANGED <<retriever, safety, apart,
                   prev, mmr_k, lambda_mult, candidate_indices,
                   selected_indices, mmr_results, ret>>

\* smart_search(query, kk) called directly.
SmartSearchCall(q, kk) == SmartSearchBegin(q, kk) /\ UNCHANGED output

\* Mutant: the override tests the classifier's floor (0.5) instead of 0.55.
OffTopicAtLowFloor == safe_results # <<>> /\ safe_results[1].score < LowFloor

OffTopic == safe_results # <<>> /\ safe_results[1].score < OffTopicFloor

Count(results, label) ==
    Cardinality({ i \in 1..Len(results) : results[i].confidence = label })

high_count == Count(safe_results, "Highly Confident")

low_count == Count(safe_results, "Low Confidence")

\* Mutant: strictly more than k // 2 High results are asked for.
HighMajorityStrict == high_count > k \div 2

HighMajority == high_count >= k \div 2

LowMajority == low_count >= k \div 2

\* Mutant: the override leaves the labels as they are.
OverriddenNot(results) == results

Overridden(results) ==
    [i \in 1..Len(results) |-> [results[i] EXCEPT !.confidence = "Low Confidence"]]

\* Mutant: every decision is reported with high confidence.
DecisionConfident(method, confidence, recommendation, results) ==
    [method |-> method, confidence |-> "high",
     recommendation |-> recommendation, results |-> results]

\* Mutant: every decision is labelled with the first pass's method.
DecisionBySafeSearch(method, confidence, recommendation, results) ==
    [method |-> "safe_search", confidence |-> confidence,
     recommendation |-> recommendation, results |-> results]

Decision(method, confidence, recommendation, results) ==
    [method |-> method, confidence |-> confidence,
     recommendation |-> recommendation, results |-> results]

\* Mutant: the MMR results are returned without the "confidence" key set.
UnscoredUnlabelled(results) ==
    [i \in 1..Len(results) |->
        [idx |-> results[i].idx, doc |-> results[i].doc, score |-> None,
         confidence |-> "none"]]

Unscored(results) ==
    [i \in 1..Len(results) |->
        [idx |-> results[i].idx, doc |-> results[i].doc, score |-> None,
         confidence |-> "medium"]]

OffTopicOverride ==
    /\ pc = "SafeSearch"
    /\ OffTopic
    /\ safe_results' = Overridden(safe_results)
    /\ ret' = Decision("safe_search", "low", "DO_NOT_ANSWER", Overridden(safe_results))
    /\ pc' = "Refuse"
    /\ UNCHANGED <<retriever, safety, apart, prev, output, error,
                   entry, query, k, mmr_k, lambda_mult,
                   candidate_indices, selected_indices, mmr_results>>

AnswerSafely ==
    /\ pc = "SafeSearch"
    /\ ~OffTopic
    /\ HighMajority
    /\ ret' = Decision("safe_search", "high", "SAFE_TO_ANSWER", safe_results)
    /\ pc' = "AnswerSafely"
    /\ UNCHANGED <<retriever, safety, apart, prev, output, error,
                   entry, query, k, safe_results, mmr_k, lambda_mult,
                   candidate_indices, selected_indices, mmr_results>>

Refuse ==
    /\ pc = "SafeSearch"
    /\ ~OffTopic
    /\ ~HighMajority
    /\ LowMajority
    /\ ret' = Decision("safe_search", "low", "DO_NOT_ANSWER", safe_results)
    /\ pc' = "Refuse"
    /\ UNCHANGED <<retriever, safety, apart, prev, output, error,
                   entry, query, k, safe_results, mmr_k, lambda_mult,
                   candidate_indices, selected_indices, mmr_results>>

Diversify ==
    /\ pc = "SafeSearch"
    /\ ~OffTopic
    /\ ~HighMajority
    /\ ~LowMajority
    /\ MMRBegin(query, k * 2, RouterLambda)
    /\ UNCHANGED <<retriever, safety, apart, prev, output,
                   entry, query, k, safe_results,
                   ret>>

AnswerDiversified ==
    /\ pc = "MMRDone"
    /\ entry = "smart_search"
    /\ ret' = Decision("mmr_retrieval", "medium", "REVIEW_BEFORE_ANSWERING",
                       Unscored(mmr_results))
    /\ pc' = "AnswerDiversified"
    /\ UNCHANGED <<retriever, safety, apart, prev, output, error,
                   entry, query, k, safe_results, mmr_k, lambda_mult,
                   candidate_indices, selected_indices, mmr_results>>

\* Mutant: the failure is caught and answered with an empty refusal.
Swallowed(e) ==
    [pc |-> "Refuse", error |-> e,
     ret |-> Decision("safe_search", "low", "DO_NOT_ANSWER", <<>>)]

\* An exception nothing catches: the call ends with it and returns nothing.
Propagated(e) == [pc |-> "Raised", error |-> e, ret |-> NoDecision]

\* self.model.encode or self.index.search raises in smart_search's first
\* pass: no distance is ever computed.
FirstPassFails(kk) ==
    /\ pc = "Start"
    /\ entry' = "smart_search"
    /\ k' = kk
    /\ pc' = Propagated("Unavailable").pc
    /\ error' = Propagated("Unavailable").error
    /\ ret' = Propagated("Unavailable").ret
    /\ UNCHANGED <<retriever, safety, apart,
                   prev, output, query, safe_results, mmr_k,
                   lambda_mult, candidate_indices, selected_indices, mmr_results>>

\* The same inside advanced_mmr_retrieval, on the route's second query.
RequeryFails ==
    /\ pc = "SafeSearch"
    /\ ~OffTopic
    /\ ~HighMajority
    /\ ~LowMajority
    /\ mmr_k' = k * 2
    /\ lambda_mult' = RouterLambda
    /\ pc' = Propagated("Unavailable").pc
    /\ error' = Propagated("Unavailable").error
    /\ ret' = Propagated("Unavailable").ret
    /\ UNCHANGED <<retriever, safety, apart,
                   prev, output, entry, query, k, safe_results,
                   candidate_indices, selected_indices, mmr_results>>

-----------------------------------------------------------------------------
(* search_function (src/backend/agent_tools.py) *)

SearchK == 5
TopShown == 2

\* search_function is waiting for smart_search.
Pending == [status |-> "pending", warning |-> FALSE, documents |-> <<>>]

\* Mutant: every document of the decision is shown.
ShownAll(documents) == documents

\* documents[:2]
Shown(documents) == SubSeq(documents, 1, Min(TopShown, Len(documents)))

\* The lines written for one document: the score only when it has one.
Block(doc) ==
    [doc |-> doc.doc,
     lines |-> <<"title">>
               \o (IF doc.score # None THEN <<"score and confidence">>
                   ELSE <<"confidence">>)
               \o <<"source", "content">>]

\* The text search_function returns, by its parts.
Render(results) ==
    IF results.recommendation = "DO_NOT_ANSWER"
    THEN [status |-> "rendered", warning |-> TRUE, documents |-> <<>>]
    ELSE [status |-> "rendered", warning |-> FALSE,
          documents |-> [i \in 1..Len(Shown(results.results)) |->
                           Block(Shown(results.results)[i])]]

\* search_function(query): the rewritten query goes to smart_search with k=5.
SearchFunctionCall(q) ==
    /\ SmartSearchBegin(q, SearchK)
    /\ output' = Pending

\* smart_search has returned its dict: format it and return the text.
SearchFunctionReturn ==
    /\ pc \in {"Refuse", "AnswerSafely", "AnswerDiversified"}
    /\ output = Pending
    /\ output' = Render(ret)
    /\ pc' = "Rendered"
    /\ UNCHANGED <<retriever, safety, apart,
                   prev, error, entry, query, k, safe_results,
                   mmr_k, lambda_mult, candidate_indices, selected_indices,
                   mmr_results, ret>>

-----------------------------------------------------------------------------
Terminal ==
    \/ pc \in {"Raised", "Returned", "Rendered"}
    \/ pc \in {"Refuse", "AnswerSafely", "AnswerDiversified"} /\ output = NoOutput
    \/ pc = "MMRDone" /\ entry = "advanced_mmr_retrieval"

\* The call is over; the retriever is ready for the next one.
Return ==
    /\ Terminal
    /\ pc' = "Start"
    /\ entry' = "none"
    /\ query' = <<>>
    /\ k' = 0
    /\ safe_results' = <<>>
    /\ mmr_k' = 0
    /\ lambda_mult' = 0
    /\ candidate_indices' = <<>>
    /\ selected_indices' = <<>>
    /\ mmr_results' = <<>>
    /\ ret' = NoDecision
    /\ error' = "none"
    /\ output' = NoOutput
    /\ UNCHANGED <<retriever, safety, apart, prev>>

Next ==
    \/ \E q \in Queries(DistValues), kk \in 1..MaxK : SmartSearchCall(q, kk)
    \/ OffTopicOverride
    \/ AnswerSafely
    \/ Refuse
    \/ Diversify
    \/ MMRPick
    \/ MMRBuild
    \/ AnswerDiversified
    \/ Return

Spec == Init /\ [][Next]_vars

NextMMR ==
    \/ \E q \in Queries(MMRDistValues), kk \in 1..MaxK, lam \in Lambdas :
          MMRCall(q, kk, lam)
    \/ MMRPick
    \/ MMRBuild
    \/ Return

SpecMMR == Init /\ [][NextMMR]_vars

\* advanced_mmr_retrieval on an index one larger than MaxN, every vector with
\* its metadata record: from the third pick on there is a choice to make
\* against two or more selected vectors.
InitPicks ==
    /\ index_ntotal = MaxN + 1
    /\ metadata_len = MaxN + 1
    /\ reconstructable \in BOOLEAN
    /\ topic \in Topics(index_ntotal, reconstructable)
    /\ Fresh

SpecPicks == InitPicks /\ [][NextMMR]_vars

InitBands == Init /\ index_ntotal = 1 /\ metadata_len = 1

NextBands ==
    \/ \E q \in Queries(0..MaxDist), kk \in 1..MaxK : SafeSearchCall(q, kk)
    \/ Return

SpecBands == InitBands /\ [][NextBands]_vars

\* The caller keeps what smart_search gave it and calls again with the same
\* query and k, on the same retriever.
Remember ==
    /\ Terminal
    /\ entry = "smart_search"
    /\ ~prev.called
    /\ prev' = [called |-> TRUE, query |-> query, k |-> k,
                raised |-> (pc = "Raised"), ret |-> ret]
    /\ pc' = "Start"
    /\ entry' = "none"
    /\ query' = <<>>
    /\ k' = 0
    /\ safe_results' = <<>>
    /\ mmr_k' = 0
    /\ lambda_mult' = 0
    /\ candidate_indices' = <<>>
    /\ selected_indices' = <<>>
    /\ mmr_results' = <<>>
    /\ ret' = NoDecision
    /\ error' = "none"
    /\ UNCHANGED <<retriever, safety, apart, output>>

InitRepeat ==
    Init /\ index_ntotal = MaxN /\ metadata_len \in {MaxMeta - 1, MaxMeta}

NextRepeat ==
    \/ /\ ~prev.called
       /\ \E q \in Queries(DistValues), kk \in 1..MaxK : SmartSearchCall(q, kk)
    \/ Remember
    \/ prev.called /\ SmartSearchCall(prev.query, prev.k)
    \/ OffTopicOverride
    \/ AnswerSafely
    \/ Refuse
    \/ Diversify
    \/ MMRPick
    \/ MMRBuild
    \/ AnswerDiversified
    \/ prev.called /\ Return

SpecRepeat == InitRepeat /\ [][NextRepeat]_vars

\* smart_search on an index larger than 2k for the smallest k that can reach
\* MMR, every vector with its metadata record and all pointing one way.
InitPool ==
    /\ index_ntotal = MaxPool
    /\ metadata_len = MaxPool
    /\ reconstructable \in BOOLEAN
    /\ topic = [i \in 1..MaxPool |-> 0]
    /\ Fresh

NextPool ==
    \/ \E q \in Queries(DistValues), kk \in 1..MaxK :
          SmartSearchCall(q, kk)
    \/ OffTopicOverride
    \/ AnswerSafely
    \/ Refuse
    \/ Diversify
    \/ MMRPick
    \/ MMRBuild
    \/ AnswerDiversified
    \/ Return

SpecPool == InitPool /\ [][NextPool]_vars

\* search_function over an index smaller than its k (padded first pass) and
\* one of exactly k vectors, with the metadata list complete or empty and all
\* stored vectors pointing one way.
InitTool ==
    /\ index_ntotal \in {MaxN, SearchK}
    /\ metadata_len \in {0, index_ntotal}
    /\ reconstructable \in BOOLEAN
    /\ topic = [i \in 1..index_ntotal |-> 0]
    /\ Fresh

NextTool ==
    \/ \E q \in Queries(DistValues) : SearchFunctionCall(q)
    \/ OffTopicOverride
    \/ AnswerSafely
    \/ Refuse
    \/ Diversify
    \/ MMRPick
    \/ MMRBuild
    \/ AnswerDiversified
    \/ SearchFunctionReturn
    \/ Return

SpecTool == InitTool /\ [][NextTool]_vars

-----------------------------------------------------------------------------
(* run_safety_check (src/backend/safety.py) *)

ConfidenceThreshold == 70

retrieval ==
    <<retriever, pc, entry, query, k, safe_results, mmr_k, lambda_mult,
      candidate_indices, selected_indices, mmr_results, ret, error, output, prev>>

\* What the zero-shot classifier can give back for a message: no answer, or
\* a top label (the normal one or another) with its score in hundredths.
Answers ==
    {Failed} \cup
    { [ok |-> TRUE, normal |-> n, score |-> s] :
        n \in BOOLEAN, s \in {ConfidenceThreshold - 1, ConfidenceThreshold} }

\* A message, by what the four layers see in it.
Messages ==
    [crisis_keyword : BOOLEAN, crisis_hf : Answers,
     dangerous_keyword : BOOLEAN, dangerous_hf : Answers]

\* Mutant: a classifier call that failed counts as a detection.
DetectedOrFailed(answer) ==
    ~answer.ok \/ (~answer.normal /\ answer.score >= ConfidenceThreshold)

\* hf_detect_crisis / hf_detect_dangerous_topic: a failed call detects nothing.
Detected(answer) ==
    answer.ok /\ ~answer.normal /\ answer.score >= ConfidenceThreshold

Template(flag) ==
    IF flag = "crisis" THEN "CRISIS_RESPONSE_TEMPLATE" ELSE "LOW_CONFIDENCE_TEMPLATE"

\* Mutant: a flagged message is still reported safe.
FlaggedSafe(flag) == [safe |-> TRUE, response |-> Template(flag), flag |-> flag]

Flagged(flag) == [safe |-> FALSE, response |-> Template(flag), flag |-> flag]

Unflagged == [safe |-> TRUE, response |-> "None", flag |-> "None"]

Event(flag, detected_by) == [file |-> flag, detected_by |-> detected_by]

\* run_safety_check(message) is called.
RunSafetyCheck(msg) ==
    /\ s_pc = "Idle"
    /\ Len(log) < MaxLog
    /\ message' = msg
    /\ s_pc' = "CrisisKeyword"
    /\ UNCHANGED <<retrieval, apart, hf_calls, safety_ret, log>>

\* A layer fired: log the event and return the flagged dict.
Fire(flag, detected_by) ==
    /\ log' = Append(log, Event(flag, detected_by))
    /\ safety_ret' = Flagged(flag)
    /\ s_pc' = "Done"

CrisisKeywordLayer ==
    /\ s_pc = "CrisisKeyword"
    /\ IF message.crisis_keyword
       THEN Fire("crisis", "keyword")
       ELSE s_pc' = "CrisisClassifier" /\ UNCHANGED <<safety_ret, log>>
    /\ UNCHANGED <<retrieval, apart, message, hf_calls>>

CrisisClassifierLayer ==
    /\ s_pc = "CrisisClassifier"
    /\ hf_calls' = Append(hf_calls, "crisis")
    /\ IF Detected(message.crisis_hf)
       THEN Fire("crisis", "huggingface")
       ELSE s_pc' = "DangerousKeyword" /\ UNCHANGED <<safety_ret, log>>
    /\ UNCHANGED <<retrieval, apart, message>>

DangerousKeywordLayer ==
    /\ s_pc = "DangerousKeyword"
    /\ IF message.dangerous_keyword
       THEN Fire("dangerous", "keyword")
       ELSE s_pc' = "DangerousClassifier" /\ UNCHANGED <<safety_ret, log>>
    /\ UNCHANGED <<retrieval, apart, message, hf_calls>>

DangerousClassifierLayer ==
    /\ s_pc = "DangerousClassifier"
    /\ hf_calls' = Append(hf_calls, "dangerous")
    /\ IF Detected(message.dangerous_hf)
       THEN Fire("dangerous", "huggingface")
       ELSE s_pc' = "Done" /\ safety_ret' = Unflagged /\ UNCHANGED log
    /\ UNCHANGED <<retrieval, apart, message>>

\* The caller has the dict; the log files stay.
SafetyReturn ==
    /\ s_pc = "Done"
    /\ s_pc' = "Idle"
    /\ message' = NoMessage
    /\ hf_calls' = <<>>
    /\ safety_ret' = NoResult
    /\ UNCHANGED <<retrieval, apart, log>>

InitSafety ==
    Init /\ index_ntotal = 0 /\ metadata_len = 0 /\ ~reconstructable

NextSafety ==
    \/ \E msg \in Messages : RunSafetyCheck(msg)
    \/ CrisisKeywordLayer
    \/ CrisisClassifierLayer
    \/ DangerousKeywordLayer
    \/ DangerousClassifierLayer
    \/ SafetyReturn

SpecSafety == InitSafety /\ [][NextSafety]_vars

-----------------------------------------------------------------------------
-----------------------------------------------------------------------------
(* ConversationAgent (src/backend/agent.py) *)

\* A query, by what the two keyword lists find in it.
ChatQueries == [crisis_keyword : BOOLEAN, dangerous_keyword : BOOLEAN]

\* Mutant: the blocklist is looked at before the crisis keywords.
DangerousBeforeCrisis(q) ==
    IF q.dangerous_keyword THEN "DANGEROUS"
    ELSE IF q.crisis_keyword THEN "CRISIS"
    ELSE "SAFE"

basic_check_query_safety(q) ==
    IF q.crisis_keyword THEN "CRISIS"
    ELSE IF q.dangerous_keyword THEN "DANGEROUS"
    ELSE "SAFE"

HardStopTemplate(status) ==
    IF status = "CRISIS" THEN "CRISIS_RESPONSE_TEMPLATE"
    ELSE "DANGEROUS_MESSAGE_TEMPLATE"

\* One entry of conversation_history; about names the query it belongs to.
Entry(role, content, q) == [role |-> role, content |-> content, about |-> q]

\* chat_agent(query) up to its return (a hard stop) or its search.
ChatAgent(q) ==
    /\ turn.pc = "Idle"
    /\ Len(conversation_history) + 2 <= MaxHistory
    /\ LET status == basic_check_query_safety(q)
           memory == Len(conversation_history)
       IN  IF status \in {"CRISIS", "DANGEROUS"}
           THEN /\ conversation_history' =
                     conversation_history
                       \o <<Entry("user", "query", q),
                            Entry("assistant", HardStopTemplate(status), q)>>
                /\ turn' = [pc |-> "Done", query |-> q, memory |-> memory,
                            calls |-> <<>>, reply |-> HardStopTemplate(status)]
           ELSE /\ turn' = [pc |-> "Searching", query |-> q, memory |-> memory,
                            calls |-> <<>>, reply |-> "none"]
                /\ UNCHANGED conversation_history
    /\ UNCHANGED <<retrieval, safety, database, loader>>

\* search_tool.run(query): it returns its text, or search_function raises.
SearchToolRun ==
    /\ turn.pc = "Searching"
    /\ \E next \in {"Asking", "Raised"} :
          turn' = [turn EXCEPT !.pc = next, !.calls = Append(@, "search_tool")]
    /\ UNCHANGED <<retrieval, safety, database, loader, conversation_history>>

\* self.client.chat_completion: the answer is saved and returned, or the
\* call raises and nothing is saved.
ChatCompletion ==
    /\ turn.pc = "Asking"
    /\ \/ /\ turn' = [turn EXCEPT !.pc = "Done", !.calls = Append(@, "llm"),
                                  !.reply = "response"]
          /\ conversation_history' =
               conversation_history
                 \o <<Entry("user", "user_message", turn.query),
                      Entry("assistant", "response", turn.query)>>
       \/ /\ turn' = [turn EXCEPT !.pc = "Raised", !.calls = Append(@, "llm")]
          /\ UNCHANGED conversation_history
    /\ UNCHANGED <<retrieval, safety, database, loader>>

\* The caller has the reply (or the exception); the history stays.
ChatReturn ==
    /\ turn.pc \in {"Done", "Raised"}
    /\ turn' = NoTurn
    /\ UNCHANGED <<retrieval, safety, database, loader, conversation_history>>

NextAgent ==
    \/ \E q \in ChatQueries : ChatAgent(q)
    \/ SearchToolRun
    \/ ChatCompletion
    \/ ChatReturn

SpecAgent == InitSafety /\ [][NextAgent]_vars

-----------------------------------------------------------------------------
(* The daily log table (src/frontend/utils/database.py) *)

\* The (log_date, patient_name) pairs and the field values a form can send.
LogKeys == {1, 2}
LogFields == {1, 2}

\* The rows SELECT id ... WHERE log_date = ? AND patient_name = ? finds.
RowsOf(key) == {r \in daily_logs : r.key = key}

\* The id AUTOINCREMENT gives the next row (no row is ever deleted here).
NextId == Cardinality(daily_logs) + 1

\* save_daily_log up to fetchone(): the session learns whether a row exists.
SaveSelect(s, key, fields) ==
    /\ saving[s].pc = "Idle"
    /\ saving' = [saving EXCEPT ![s] =
                     [pc |-> "Selected", key |-> key, fields |-> fields,
                      existing |-> RowsOf(key) # {}, result |-> "none"]]
    /\ UNCHANGED <<retrieval, safety, agent, loader, daily_logs>>

\* The UPDATE or the INSERT, with its commit.  An INSERT for a key that has a
\* row by now breaks UNIQUE(log_date, patient_name): sqlite3 raises
\* IntegrityError, the except clause returns (False, "Error: ...").
SaveWrite(s) ==
    /\ saving[s].pc = "Selected"
    /\ LET key == saving[s].key
           fields == saving[s].fields
       IN  IF saving[s].existing
           THEN /\ daily_logs' =
                     {IF r.key = key THEN [r EXCEPT !.fields = fields] ELSE r
                        : r \in daily_logs}
                /\ saving' = [saving EXCEPT ![s].pc = "Done",
                                            ![s].result = "updated"]
           ELSE IF RowsOf(key) = {}
           THEN /\ daily_logs' =
                     daily_logs
                       \cup {[id |-> NextId, key |-> key, fields |-> fields]}
                /\ saving' = [saving EXCEPT ![s].pc = "Done",
                                            ![s].result = "saved"]
           ELSE /\ saving' = [saving EXCEPT ![s].pc = "Done",
                                            ![s].result = "Error"]
                /\ UNCHANGED daily_logs
    /\ UNCHANGED <<retrieval, safety, agent, loader>>

\* The page has shown the message; the session can save again.
SaveReturn(s) ==
    /\ saving[s].pc = "Done"
    /\ saving' = [saving EXCEPT ![s] = NoSave]
    /\ UNCHANGED <<retrieval, safety, agent, loader, daily_logs>>

NextDatabase ==
    \E s \in Sessions :
       \/ \E key \in LogKeys, fields \in LogFields : SaveSelect(s, key, fields)
       \/ SaveWrite(s)
       \/ SaveReturn(s)

SpecDatabase == InitSafety /\ [][NextDatabase]_vars

-----------------------------------------------------------------------------
(* get_retriever (src/backend/agent_tools.py) *)

\* if _retriever_cache is None: the thread reads the global once.
GetCheck(t) ==
    /\ getting[t].pc = "Idle"
    /\ getting' = [getting EXCEPT ![t].pc =
                      IF retriever_cache = None THEN "Constructing"
                      ELSE "Returning"]
    /\ UNCHANGED <<retrieval, safety, agent, database,
                   retriever_cache, constructions>>

\* RAGRetriever(): the model, the index and the metadata are loaded into a
\* new object, the constructions-th of the process.
Construct(t) ==
    /\ getting[t].pc = "Constructing"
    /\ constructions' = constructions + 1
    /\ getting' = [getting EXCEPT ![t].pc = "Assigning",
                                  ![t].instance = constructions + 1]
    /\ UNCHANGED <<retrieval, safety, agent, database, retriever_cache>>

\* _retriever_cache = <the new object>
Assign(t) ==
    /\ getting[t].pc = "Assigning"
    /\ retriever_cache' = getting[t].instance
    /\ getting' = [getting EXCEPT ![t].pc = "Returning"]
    /\ UNCHANGED <<retrieval, safety, agent, database, constructions>>

\* return _retriever_cache: the global is read again.
GetReturn(t) ==
    /\ getting[t].pc = "Returning"
    /\ getting' = [getting EXCEPT ![t].pc = "Done",
                                  ![t].result = retriever_cache]
    /\ UNCHANGED <<retrieval, safety, agent, database,
                   retriever_cache, constructions>>

\* search_function is through with the retriever; the thread may call again.
GetDone(t) ==
    /\ getting[t].pc = "Done"
    /\ getting' = [getting EXCEPT ![t] = NoGet]
    /\ UNCHANGED <<retrieval, safety, agent, database,
                   retriever_cache, constructions>>

NextLoader ==
    \E t \in Threads :
       \/ GetCheck(t)
       \/ Construct(t)
       \/ Assign(t)
       \/ GetReturn(t)
       \/ GetDone(t)

SpecLoader == InitSafety /\ [][NextLoader]_vars

\* Every way into the retriever, with an encoder and an index that may fail.
NextRetriever ==
    \/ Next
    \/ NextMMR
    \/ \E kk \in 1..MaxK : FirstPassFails(kk)
    \/ RequeryFails

\* Every index and metadata size, the stored vectors all pointing one way.
InitRetriever == Init /\ \A i \in 1..index_ntotal : topic[i] = 0

SpecRetriever == InitRetriever /\ [][NextRetriever]_vars

-----------------------------------------------------------------------------
(* Vocabulary of the properties *)

DecisionMade == pc \in {"Refuse", "AnswerSafely", "AnswerDiversified"}

\* The band of a distance d as section 4.3 states it (hundredths).
Band(d) ==
    CASE d < 50 -> "Low"
      [] 50 <= d /\ d <= 80 -> "High"
      [] 80 < d /\ d <= 120 -> "Medium"
      [] d > 120 -> "Low"

TierOf(label) ==
    CASE label = "Highly Confident" -> "High"
      [] label \in {"Moderately Confident", "medium"} -> "Medium"
      [] label = "Low Confidence" -> "Low"
      [] OTHER -> "none"

\* The tiers the first pass gave, read off the scores (the override rewrites
\* the labels in place).
Tiered(t) == Cardinality({ i \in 1..Len(safe_results) : Band(safe_results[i].score) = t })

Sorted(results) ==
    \A i, j \in 1..Len(results) : i < j => results[i].score <= results[j].score

FirstBelowFloor == safe_results # <<>> /\ safe_results[1].score < 55

\* smart_search's safe_search call has returned its list and the router has
\* acted on it (a raise before MMR began is a raise of the first pass).
Routed ==
    /\ entry = "smart_search"
    /\ pc \notin {"Start", "SafeSearch"}
    /\ ~(pc = "Raised" /\ mmr_k = 0)

-----------------------------------------------------------------------------
\* C1: the confidence label safe_search gives a result is a function of its
\* distance alone: Low below 0.5, High on [0.5, 0.8], Medium on (0.8, 1.2],
\* Low above 1.2; every neighbour with a metadata record gets exactly one.
C1_ClassifierBands ==
    (pc = "Returned" /\ entry = "safe_search") =>
        /\ Len(safe_results) = k
        /\ \A i \in 1..Len(safe_results) :
              TierOf(safe_results[i].confidence) = Band(safe_results[i].score)

C1_Witness ==
    /\ pc = "Returned"
    /\ entry = "safe_search"
    /\ safe_results[1].score = 80
    /\ safe_results[1].confidence = "Highly Confident"

\* C2, as stated: a first result at or above the off-topic floor (0.55)
\* makes smart_search return DO_NOT_ANSWER.
C2_RefusesAtOrAboveFloor ==
    (DecisionMade /\ safe_results # <<>> /\ safe_results[1].score >= 55) =>
        ret.recommendation = "DO_NOT_ANSWER"

\* C2, amended: a first result strictly below the off-topic floor (0.55)
\* makes smart_search return DO_NOT_ANSWER, whatever the other tiers are.
C2_RefusesBelowFloor ==
    (DecisionMade /\ FirstBelowFloor) => ret.recommendation = "DO_NOT_ANSWER"

C2_Witness ==
    /\ pc = "Refuse"
    /\ FirstBelowFloor
    /\ Tiered("High") = Len(safe_results)
    /\ Len(safe_results) >= 2

\* C3: with a first result below 0.55 the decision is DO_NOT_ANSWER by
\* "safe_search" with confidence "low", and every returned result is Low,
\* for every k and whatever the other neighbours are.
C3_OverrideDecision ==
    (DecisionMade /\ FirstBelowFloor) =>
        /\ ret.method = "safe_search"
        /\ ret.confidence = "low"
        /\ ret.recommendation = "DO_NOT_ANSWER"
        /\ Len(ret.results) = Len(safe_results)
        /\ \A i \in 1..Len(ret.results) :
              /\ TierOf(ret.results[i].confidence) = "Low"
              /\ ret.results[i].score = safe_results[i].score

C3_Witness ==
    /\ pc = "Refuse"
    /\ k = 4
    /\ safe_results # <<>>
    /\ safe_results[1].score = 52
    /\ Tiered("High") = 2
    /\ Tiered("Medium") = 1

\* C4, as stated: at least half of the k neighbours High gives
\* SAFE_TO_ANSWER by "safe_search" with the results in distance order.
C4_HighHalfIsSafe ==
    (DecisionMade /\ 2 * Tiered("High") >= k) =>
        /\ ret.recommendation = "SAFE_TO_ANSWER"
        /\ ret.method = "safe_search"
        /\ Sorted(ret.results)

\* C4, amended: the same, provided the off-topic override does not fire
\* (the first result is not below 0.55).
C4_HighHalfIsSafeUnlessOffTopic ==
    (DecisionMade /\ ~FirstBelowFloor /\ 2 * Tiered("High") >= k) =>
        /\ ret.recommendation = "SAFE_TO_ANSWER"
        /\ ret.method = "safe_search"
        /\ ret.results = safe_results
        /\ Sorted(ret.results)

C4_Witness ==
    /\ pc = "AnswerSafely"
    /\ k = 4
    /\ Tiered("High") = 3
    /\ Len(ret.results) = 4

\* C5: without the override, at least half of the k neighbours Low gives
\* DO_NOT_ANSWER, also when the High count reaches its threshold too.
C5_LowHalfRefuses ==
    (DecisionMade /\ ~FirstBelowFloor /\ 2 * Tiered("Low") >= k) =>
        ret.recommendation = "DO_NOT_ANSWER"

\* C6: when neither the override nor the High rule nor the Low rule (each
\* against k div 2) applies, the call ends in REVIEW_BEFORE_ANSWERING by
\* "mmr_retrieval", MMR ran with lambda 0.5, and every result is Medium with
\* no score.
C6_OtherwiseReview ==
    (/\ Routed
     /\ ~FirstBelowFloor
     /\ Tiered("High") < k \div 2
     /\ Tiered("Low") < k \div 2) =>
        /\ pc \in {"MMRLoop", "MMRDone", "AnswerDiversified"}
        /\ lambda_mult = 5
        /\ pc = "AnswerDiversified" =>
              /\ ret.recommendation = "REVIEW_BEFORE_ANSWERING"
              /\ ret.method = "mmr_retrieval"
              /\ Len(ret.results) = Len(mmr_results)
              /\ \A i \in 1..Len(ret.results) :
                    /\ TierOf(ret.results[i].confidence) = "Medium"
                    /\ ret.results[i].score = None
                    /\ ret.results[i].doc = mmr_results[i].doc

C6_Witness ==
    /\ pc = "AnswerDiversified"
    /\ reconstructable
    /\ Len(ret.results) >= 2
    /\ Tiered("Medium") >= 2

C6_WitnessFallback ==
    /\ pc = "AnswerDiversified"
    /\ ~reconstructable
    /\ Len(ret.results) >= 2

\* C7: on an empty index, or when the first pass yields no result, the call
\* raises nothing and returns DO_NOT_ANSWER with an empty results list.
C7_EmptyRefuses ==
    (/\ entry = "smart_search"
     /\ pc \in {"Raised", "Refuse", "AnswerSafely", "AnswerDiversified"}
     /\ (index_ntotal = 0 \/ (pc # "Raised" /\ safe_results = <<>>))) =>
        /\ pc # "Raised"
        /\ ret.recommendation = "DO_NOT_ANSWER"
        /\ ret.results = <<>>

\* C8: when the first pass returns n < k results, the High and Low
\* thresholds are n div 2, not k div 2.
C8_ThresholdsFromActualCount ==
    (DecisionMade /\ ~FirstBelowFloor /\ Len(safe_results) < k) =>
        LET n == Len(safe_results)
        IN  ret.recommendation =
              IF Tiered("High") >= n \div 2 THEN "SAFE_TO_ANSWER"
              ELSE IF Tiered("Low") >= n \div 2 THEN "DO_NOT_ANSWER"
              ELSE "REVIEW_BEFORE_ANSWERING"

\* C9: the list safe_search returns is in non-decreasing distance order, also
\* when identifiers were skipped, and a decision by "safe_search" keeps it.
C9_ResultsSorted ==
    /\ Sorted(safe_results)
    /\ (DecisionMade /\ ret.method = "safe_search") =>
          Sorted(ret.results) /\ Len(ret.results) = Len(safe_results)

C9_Witness ==
    /\ pc = "SafeSearch"
    /\ Len(safe_results) = 2
    /\ k = 3
    /\ index_ntotal = 3
    /\ safe_results[1].score < safe_results[2].score
    /\ safe_results[1].idx > safe_results[2].idx

\* C10: the MMR selection never holds an identifier twice and never more
\* than min(k, |candidates|) entries, at every step of the greedy loop and in
\* the list returned.
C10_SelectionDistinctAndBounded ==
    /\ Len(selected_indices) <= Min(mmr_k, Len(candidate_indices))
    /\ \A i, j \in 1..Len(selected_indices) :
          i # j => selected_indices[i] # selected_indices[j]
    /\ Len(mmr_results) <= Min(mmr_k, Len(candidate_indices))
    /\ \A i, j \in 1..Len(mmr_results) :
          i # j => mmr_results[i].idx # mmr_results[j].idx

C10_Witness ==
    /\ pc = "MMRDone"
    /\ entry = "advanced_mmr_retrieval"
    /\ reconstructable
    /\ Len(candidate_indices) = 3
    /\ Len(selected_indices) = 2
    /\ Len(mmr_results) = 2
    /\ selected_indices[2] # candidate_indices[2]

-----------------------------------------------------------------------------
\* The position of identifier id in the candidate list.
RankOf(cands, id) == CHOOSE p \in 1..Len(cands) : cands[p] = id

\* Candidate a comes before candidate b when ordered by descending dot
\* product with the query, ties by the rank the index gave.
Outranks(q, cands, a, b) ==
    \/ Relevance(q, a) > Relevance(q, b)
    \/ Relevance(q, a) = Relevance(q, b) /\ RankOf(cands, a) < RankOf(cands, b)

\* C11: with lambda_mult = 1.0 the p-th pick of advanced_mmr_retrieval is the
\* candidate that exactly p - 1 candidates outrank by relevance (ties by
\* index rank), and the finished selection has min(k, |candidates|) picks.
C11_PureRelevanceSelection ==
    (entry = "advanced_mmr_retrieval" /\ lambda_mult = LambdaScale
       /\ reconstructable /\ pc \in {"MMRLoop", "MMRDone"}) =>
        /\ \A p \in 1..Len(selected_indices) :
              /\ selected_indices[p] \in Members(candidate_indices)
              /\ Cardinality({ c \in Members(candidate_indices) :
                     Outranks(query, candidate_indices, c, selected_indices[p]) })
                   = p - 1
        /\ pc = "MMRDone" =>
              Len(selected_indices) = Min(mmr_k, Len(candidate_indices))

\* Two picks made at lambda_mult = 1.0 among three candidates, the second and
\* third tied on relevance and pointing another way than the first.
C11_Witness ==
    /\ entry = "advanced_mmr_retrieval" /\ lambda_mult = LambdaScale
    /\ reconstructable /\ pc = "MMRDone"
    /\ Len(candidate_indices) = 3 /\ Len(selected_indices) = 2
    /\ query[candidate_indices[2] + 1] = query[candidate_indices[3] + 1]
    /\ topic[candidate_indices[1] + 1] # topic[candidate_indices[2] + 1]

-----------------------------------------------------------------------------
\* The identifiers of a result list, in order.
Docs(results) == [i \in 1..Len(results) |-> results[i].idx]

\* The entries of s that have a metadata record, in order.
RECURSIVE Recorded(_)
Recorded(s) ==
    IF s = <<>> THEN <<>>
    ELSE IF Head(s) < metadata_len THEN <<Head(s)>> \o Recorded(Tail(s))
         ELSE Recorded(Tail(s))

\* C12: when the index cannot reconstruct the candidates' vectors,
\* advanced_mmr_retrieval makes no pick, raises nothing and returns the first
\* k candidates (those that have a metadata record) in the order of the
\* search; smart_search turns that list into its REVIEW decision.
C12_ReconstructionFallback ==
    (~reconstructable /\ candidate_indices # <<>>) =>
        /\ pc \in {"MMRDone", "AnswerDiversified"}
        /\ error = "none"
        /\ selected_indices = <<>>
        /\ Docs(mmr_results) =
             Recorded(SubSeq(candidate_indices, 1,
                             Min(mmr_k, Len(candidate_indices))))
        /\ pc = "AnswerDiversified" =>
             /\ ret.recommendation = "REVIEW_BEFORE_ANSWERING"
             /\ Docs(ret.results) = Docs(mmr_results)

\* A direct call that fetched more candidates than it was asked to return,
\* on an index that cannot reconstruct.
C12_Witness ==
    /\ ~reconstructable /\ entry = "advanced_mmr_retrieval" /\ pc = "MMRDone"
    /\ Len(candidate_indices) > mmr_k
    /\ Len(mmr_results) = mmr_k

\* The same through smart_search, which decides on the fallback list.
C12_WitnessRouted ==
    /\ ~reconstructable /\ pc = "AnswerDiversified"
    /\ Len(ret.results) >= 2

-----------------------------------------------------------------------------
-----------------------------------------------------------------------------
\* C14: every decision smart_search returns recommends exactly one of
\* SAFE_TO_ANSWER, REVIEW_BEFORE_ANSWERING and DO_NOT_ANSWER, and its method
\* is "mmr_retrieval" when the recommendation is REVIEW_BEFORE_ANSWERING and
\* "safe_search" when it is one of the other two.
C14_RecommendationAndMethod ==
    (DecisionMade \/ ret # NoDecision) =>
        /\ ret.recommendation \in
             {"SAFE_TO_ANSWER", "REVIEW_BEFORE_ANSWERING", "DO_NOT_ANSWER"}
        /\ ret.method \in {"mmr_retrieval", "safe_search"}
        /\ ret.method = "mmr_retrieval" <=>
             ret.recommendation = "REVIEW_BEFORE_ANSWERING"

\* A decision reached through MMR.
C14_Witness ==
    /\ pc = "AnswerDiversified"
    /\ ret.method = "mmr_retrieval"
    /\ ret.recommendation = "REVIEW_BEFORE_ANSWERING"

-----------------------------------------------------------------------------
\* C15: a safe_search for more neighbours than the index holds returns at most
\* min(k, N) results, each for a distinct stored identifier in 0..N-1, and
\* none for a neighbour slot the index could not fill.
C15_ClampedToIndexSize ==
    (entry = "safe_search" /\ pc = "Returned") =>
        /\ Len(safe_results) <= Min(k, index_ntotal)
        /\ \A i \in 1..Len(safe_results) :
              /\ safe_results[i].idx \in 0..(index_ntotal - 1)
              /\ safe_results[i].score # Infinity
        /\ \A i, j \in 1..Len(safe_results) :
              i # j => safe_results[i].idx # safe_results[j].idx

-----------------------------------------------------------------------------
\* C16: every result of safe_search and of advanced_mmr_retrieval is built
\* from the metadata record of the identifier the index returned; an
\* identifier without a record is skipped, it never raises and never yields
\* a result built from another record.
C16_ResultFromOwnRecord ==
    /\ \A i \in 1..Len(safe_results) : safe_results[i].doc = safe_results[i].idx
    /\ \A i \in 1..Len(mmr_results) : mmr_results[i].doc = mmr_results[i].idx
    /\ error # "IndexError"

-----------------------------------------------------------------------------
\* C17: when smart_search(q, k) goes to MMR, the pool the index is asked for
\* holds 2k candidates, or the whole index when that is smaller, and every
\* pick comes from that pool.
C17_PoolIsTwiceK ==
    (entry = "smart_search" /\ error = "none"
       /\ pc \in {"MMRLoop", "MMRDone", "AnswerDiversified"}) =>
        /\ Len(candidate_indices) = Min(2 * k, index_ntotal)
        /\ Members(selected_indices) \subseteq Members(candidate_indices)

-----------------------------------------------------------------------------
\* C18: when the encoder or the index search fails inside smart_search, in
\* the first pass or in the MMR re-query, the call ends with that exception
\* and returns no decision (none with an empty result list either); the one
\* failure handled inside is a failed reconstruction, after which the call
\* goes on to its decision.
C18_FailurePropagates ==
    /\ error = "Unavailable" => pc = "Raised" /\ ret = NoDecision
    /\ (DecisionMade \/ ret # NoDecision) => error = "none"
    /\ (entry = "smart_search" /\ ~reconstructable /\ candidate_indices # <<>>) =>
          pc # "Raised" /\ error = "none"

\* The MMR re-query failed after a first pass that had returned results.
C18_Witness ==
    /\ entry = "smart_search" /\ error = "Unavailable" /\ pc = "Raised"
    /\ safe_results # <<>> /\ mmr_k = 2 * k

\* The first pass failed.
C18_WitnessFirstPass ==
    /\ entry = "smart_search" /\ error = "Unavailable" /\ pc = "Raised"
    /\ safe_results = <<>> /\ mmr_k = 0

-----------------------------------------------------------------------------
\* C19: the text search_function returns shows at most the first two results
\* of the decision, in their order, each with a source line; for a
\* DO_NOT_ANSWER decision it holds the safety warning and no document at all.
C19_RenderedOutput ==
    output.status = "rendered" =>
        /\ Len(output.documents) <= 2
        /\ Len(output.documents) <= Len(ret.results)
        /\ \A i \in 1..Len(output.documents) :
              /\ output.documents[i].doc = ret.results[i].doc
              /\ \E l \in 1..Len(output.documents[i].lines) :
                    output.documents[i].lines[l] = "source"
        /\ ret.recommendation = "DO_NOT_ANSWER" =>
              output.warning /\ output.documents = <<>>
        /\ ret.recommendation # "DO_NOT_ANSWER" =>
              ~output.warning /\ Len(output.documents) = Min(2, Len(ret.results))

\* A decision with more than two results, of which two were shown.
C19_Witness ==
    /\ output.status = "rendered"
    /\ ret.recommendation = "SAFE_TO_ANSWER"
    /\ Len(ret.results) > 2
    /\ Len(output.documents) = 2

\* A refusal that came with results, none of which was shown.
C19_WitnessRefusal ==
    /\ output.status = "rendered"
    /\ ret.recommendation = "DO_NOT_ANSWER"
    /\ ret.results # <<>>
    /\ output.warning /\ output.documents = <<>>

-----------------------------------------------------------------------------
\* What each layer makes of a message.
CrisisFires(msg) == msg.crisis_keyword \/ Detected(msg.crisis_hf)

DangerousFires(msg) == msg.dangerous_keyword \/ Detected(msg.dangerous_hf)

\* The classifier calls made when the layers run in the order crisis keyword,
\* crisis classifier, dangerous keyword, dangerous classifier and stop at the
\* first one that fires.
CallsUpToFirst(msg) ==
    IF msg.crisis_keyword THEN <<>>
    ELSE IF Detected(msg.crisis_hf) \/ msg.dangerous_keyword THEN <<"crisis">>
    ELSE <<"crisis", "dangerous">>

\* C20: run_safety_check runs its layers in the order crisis keyword, crisis
\* classifier, dangerous keyword, dangerous classifier and stops at the first
\* that fires: a crisis keyword gives "crisis" with no classifier call, a
\* message firing a crisis and a dangerous layer gives "crisis", a message
\* firing none gives safe = True with flag and response None, and safe is
\* False exactly when the flag is not None.
C20_LayersInOrder ==
    s_pc = "Done" =>
        /\ hf_calls = CallsUpToFirst(message)
        /\ message.crisis_keyword => safety_ret.flag = "crisis" /\ hf_calls = <<>>
        /\ CrisisFires(message) => safety_ret.flag = "crisis"
        /\ (~CrisisFires(message) /\ DangerousFires(message)) =>
              safety_ret.flag = "dangerous"
        /\ (~CrisisFires(message) /\ ~DangerousFires(message)) =>
              safety_ret = [safe |-> TRUE, response |-> "None", flag |-> "None"]
        /\ safety_ret.safe = FALSE <=> safety_ret.flag # "None"

\* A message with a crisis keyword and a dangerous-topic keyword, which the
\* dangerous-topic classifier would flag too: flagged crisis, no call made.
C20_Witness ==
    /\ s_pc = "Done"
    /\ message.crisis_keyword /\ message.dangerous_keyword
    /\ Detected(message.dangerous_hf)
    /\ safety_ret.flag = "crisis" /\ safety_ret.safe = FALSE
    /\ hf_calls = <<>>

\* A message no layer fires on, after both classifiers were asked.
C20_WitnessSafe ==
    /\ s_pc = "Done"
    /\ safety_ret.safe = TRUE /\ safety_ret.flag = "None"
    /\ hf_calls = <<"crisis", "dangerous">>
    /\ message.crisis_hf.ok /\ message.dangerous_hf.ok

-----------------------------------------------------------------------------
\* The score the MMR formula gives candidate c against the picks made before
\* it: lambda * relevance - (1 - lambda) * (largest dot product with one of
\* them), in tenths of 1/200.
FormulaScore(c, before) ==
    lambda_mult * Relevance(query, c)
      - (LambdaScale - lambda_mult)
          * Max({ Dot(c, before[j]) : j \in 1..Len(before) })

\* C21: every pick after the first is a candidate not picked before whose
\* score lambda * relevance - (1 - lambda) * max similarity to the picks so
\* far is the largest among the candidates not picked before, and every
\* other such candidate with that same score has a larger search rank.
C21_PickMaximisesScore ==
    (reconstructable /\ pc \in {"MMRLoop", "MMRDone"}) =>
        \A p \in 2..Len(selected_indices) :
            LET before == SubSeq(selected_indices, 1, p - 1)
                open == Members(candidate_indices) \ Members(before)
                pick == selected_indices[p]
            IN  /\ pick \in open
                /\ \A c \in open \ {pick} :
                      \/ FormulaScore(c, before) < FormulaScore(pick, before)
                      \/ /\ FormulaScore(c, before) = FormulaScore(pick, before)
                         /\ RankOf(candidate_indices, pick)
                              < RankOf(candidate_indices, c)

\* A third pick made between two candidates with the same score, one near a
\* vector picked first and one near the vector picked second.
C21_Witness ==
    /\ reconstructable /\ pc = "MMRDone" /\ lambda_mult = RouterLambda
    /\ Len(candidate_indices) = 4 /\ Len(selected_indices) = 3
    /\ LET before == SubSeq(selected_indices, 1, 2)
           rest == Members(candidate_indices) \ Members(selected_indices)
       IN  /\ topic[before[1] + 1] # topic[before[2] + 1]
           /\ \E c \in rest :
                 FormulaScore(c, before) = FormulaScore(selected_indices[3], before)

-----------------------------------------------------------------------------
\* C22: the first pick of advanced_mmr_retrieval is the candidate with the
\* largest dot product with the query, the one of smallest search rank when
\* several share it.
C22_FirstPickMostRelevant ==
    (reconstructable /\ pc \in {"MMRLoop", "MMRDone"} /\ selected_indices # <<>>) =>
        /\ selected_indices[1] \in Members(candidate_indices)
        /\ \A c \in Members(candidate_indices) \ {selected_indices[1]} :
              Outranks(query, candidate_indices, selected_indices[1], c)

\* A first pick made while another candidate was as relevant as it.
C22_Witness ==
    /\ reconstructable /\ pc = "MMRLoop" /\ Len(selected_indices) = 1
    /\ \E c \in Members(candidate_indices) \ {selected_indices[1]} :
          Relevance(query, c) = Relevance(query, selected_indices[1])

-----------------------------------------------------------------------------
\* C23: a smart_search call is always at one of the states SafeSearch,
\* Refuse, AnswerSafely, Diversify (the MMR loop and its end) and
\* AnswerDiversified, and ends in Refuse, AnswerSafely or AnswerDiversified;
\* MMR runs only when neither count rule nor the override fired, and its
\* loop makes exactly min(k, |candidates|) picks, k being the k MMR was given.
C23_RouterStateMachine ==
    entry = "smart_search" =>
        /\ pc \in {"SafeSearch", "Refuse", "AnswerSafely", "MMRLoop", "MMRDone",
                   "AnswerDiversified"}
        /\ pc \in {"SafeSearch", "Refuse", "AnswerSafely"} =>
              mmr_k = 0 /\ candidate_indices = <<>> /\ selected_indices = <<>>
        /\ pc \in {"MMRLoop", "MMRDone", "AnswerDiversified"} =>
              ~FirstBelowFloor /\ ~HighMajority /\ ~LowMajority
        /\ (reconstructable /\ pc \in {"MMRDone", "AnswerDiversified"}) =>
              Len(selected_indices) = Min(mmr_k, Len(candidate_indices))

-----------------------------------------------------------------------------
\* C24: for a query in which the crisis keywords or the blocklist match,
\* chat_agent calls neither the search tool nor the LLM, returns the crisis
\* template (when the crisis keywords match, whatever the blocklist says) or
\* the dangerous-topic template, and leaves conversation_history exactly two
\* entries longer: the user's query, then the template as the assistant.
C24_HardStop ==
    (turn.pc # "Idle" /\ (turn.query.crisis_keyword \/ turn.query.dangerous_keyword)) =>
        LET template == IF turn.query.crisis_keyword
                        THEN "CRISIS_RESPONSE_TEMPLATE"
                        ELSE "DANGEROUS_MESSAGE_TEMPLATE"
        IN  /\ turn.pc = "Done"
            /\ turn.calls = <<>>
            /\ turn.reply = template
            /\ Len(conversation_history) = turn.memory + 2
            /\ conversation_history[turn.memory + 1] =
                 [role |-> "user", content |-> "query", about |-> turn.query]
            /\ conversation_history[turn.memory + 2] =
                 [role |-> "assistant", content |-> template, about |-> turn.query]

\* A query matching both lists, asked after an answered turn.
C24_Witness ==
    /\ turn.pc = "Done"
    /\ turn.query.crisis_keyword /\ turn.query.dangerous_keyword
    /\ turn.memory = 2 /\ Len(conversation_history) = 4
    /\ conversation_history[2].content = "response"
    /\ turn.reply = "CRISIS_RESPONSE_TEMPLATE"

-----------------------------------------------------------------------------
\* C25: whatever the sessions do, daily_logs holds at most one row per
\* (log_date, patient_name), and a save whose key has a row when it writes
\* succeeds and leaves that one row holding the fields it was given.
C25_OneRowPerKeyUpsert ==
    [][ /\ \A r1, r2 \in daily_logs' : r1.key = r2.key => r1 = r2
        /\ \A s \in Sessions :
              ( /\ saving[s].pc = "Selected" /\ saving'[s].pc = "Done"
                /\ \E r \in daily_logs : r.key = saving[s].key )
              => /\ saving'[s].result \in {"saved", "updated"}
                 /\ \E r \in daily_logs' : /\ r.key = saving[s].key
                                           /\ r.fields = saving[s].fields
      ]_vars

-----------------------------------------------------------------------------
\* C26: a classifier call that fails inside run_safety_check does not end the
\* check: the failing layer counts as not detected and the layers after it
\* are still run.  With the crisis classifier failing, a message is flagged
\* crisis only by its crisis keyword, a dangerous keyword is still flagged
\* "dangerous", and the dangerous classifier is still asked when no keyword
\* matched; with the dangerous classifier failing too, a message without
\* keywords is returned safe.
C26_ClassifierFailureTolerated ==
    /\ s_pc \in {"Idle", "CrisisKeyword", "CrisisClassifier",
                 "DangerousKeyword", "DangerousClassifier", "Done"}
    /\ (s_pc = "Done" /\ ~message.crisis_hf.ok) =>
          /\ safety_ret.flag = "crisis" <=> message.crisis_keyword
          /\ (~message.crisis_keyword /\ message.dangerous_keyword) =>
                /\ safety_ret = [safe |-> FALSE,
                                 response |-> "LOW_CONFIDENCE_TEMPLATE",
                                 flag |-> "dangerous"]
                /\ hf_calls = <<"crisis">>
          /\ (~message.crisis_keyword /\ ~message.dangerous_keyword) =>
                /\ hf_calls = <<"crisis", "dangerous">>
                /\ safety_ret.flag = "dangerous" <=>
                     /\ message.dangerous_hf.ok
                     /\ ~message.dangerous_hf.normal
                     /\ message.dangerous_hf.score >= ConfidenceThreshold
    /\ ( /\ s_pc = "Done" /\ ~message.dangerous_hf.ok
         /\ ~message.crisis_keyword /\ ~message.dangerous_keyword
         /\ safety_ret.flag # "crisis" ) =>
          /\ safety_ret = [safe |-> TRUE, response |-> "None", flag |-> "None"]
          /\ hf_calls = <<"crisis", "dangerous">>

\* Both classifier calls failed on a message without keywords: safe.
C26_Witness ==
    /\ s_pc = "Done"
    /\ ~message.crisis_hf.ok /\ ~message.dangerous_hf.ok
    /\ ~message.crisis_keyword /\ ~message.dangerous_keyword
    /\ hf_calls = <<"crisis", "dangerous">>
    /\ safety_ret.safe = TRUE

\* The crisis classifier failed and the dangerous keyword was still flagged.
C26_WitnessDangerous ==
    /\ s_pc = "Done"
    /\ ~message.crisis_hf.ok /\ message.dangerous_keyword
    /\ hf_calls = <<"crisis">>
    /\ safety_ret.flag = "dangerous" /\ safety_ret.safe = FALSE

-----------------------------------------------------------------------------
\* C27: smart_search answers SAFE_TO_ANSWER only with a non-empty results
\* list that holds at least one Highly Confident result, for every k >= 1
\* and every first-pass list.
C27_SafeNeedsHigh ==
    (entry = "smart_search" /\ pc = "AnswerSafely") =>
        /\ ret.results # <<>>
        /\ \E i \in 1..Len(ret.results) :
              ret.results[i].confidence = "Highly Confident"

-----------------------------------------------------------------------------
\* C28: whatever branch decides, smart_search(q, k) returns at most k
\* results.
C28_AtMostK ==
    (entry = "smart_search" /\ DecisionMade) => Len(ret.results) <= k

-----------------------------------------------------------------------------
\* C29: in every decision the overall confidence goes with the
\* recommendation (high with SAFE_TO_ANSWER, medium with
\* REVIEW_BEFORE_ANSWERING, low with DO_NOT_ANSWER), and when the decision is
\* SAFE_TO_ANSWER, or DO_NOT_ANSWER without the off-topic override, every
\* result carries the tier of its own distance.
C29_ConfidenceAgrees ==
    (entry = "smart_search" /\ DecisionMade) =>
        /\ ret.confidence = "high" <=> ret.recommendation = "SAFE_TO_ANSWER"
        /\ ret.confidence = "medium" <=>
              ret.recommendation = "REVIEW_BEFORE_ANSWERING"
        /\ ret.confidence = "low" <=> ret.recommendation = "DO_NOT_ANSWER"
        /\ ret.recommendation \in
              {"SAFE_TO_ANSWER", "REVIEW_BEFORE_ANSWERING", "DO_NOT_ANSWER"}
        /\ ( \/ ret.recommendation = "SAFE_TO_ANSWER"
             \/ (ret.recommendation = "DO_NOT_ANSWER" /\ ~FirstBelowFloor) ) =>
              \A i \in 1..Len(ret.results) :
                 TierOf(ret.results[i].confidence) = Band(ret.results[i].score)

\* A SAFE_TO_ANSWER decision whose results are not all of one tier.
C29_Witness ==
    /\ entry = "smart_search" /\ pc = "AnswerSafely"
    /\ ret.confidence = "high"
    /\ \E i, j \in 1..Len(ret.results) :
          /\ ret.results[i].confidence = "Highly Confident"
          /\ ret.results[j].confidence = "Moderately Confident"

\* A refusal by the Low count, not by the override.
C29_WitnessRefusal ==
    /\ entry = "smart_search" /\ pc = "Refuse"
    /\ ~FirstBelowFloor
    /\ ret.confidence = "low" /\ ret.results # <<>>
    /\ \A i \in 1..Len(ret.results) : ret.results[i].score > 120

-----------------------------------------------------------------------------
\* C30: however the callers interleave, the process constructs the
\* RAGRetriever at most once and every get_retriever call returns that one
\* instance.
C30_OneRetriever ==
    /\ constructions <= 1
    /\ \A t \in Threads : getting[t].pc = "Done" => getting[t].result = 1

=============================================================================
